---- MODULE Spec2Model ----
(***************************************************************************)
(* Multinomial perceptrons of perceptronix: the three topologies           *)
(* (dense/dense "DD", sparse-outer/dense-inner "SD", sparse/sparse "SS"),  *)
(* the averaged (trainable) model, its conversion into an unaveraged       *)
(* model, and the protobuf Read / Write of the unaveraged model.           *)
(***************************************************************************)
EXTENDS Integers, Sequences, FiniteSets, TLC

\* ------------------------------------------------------------------ bounds
MaxTime == 2        \* number of Train calls explored
NFeats == 2         \* nfeats given to the dense constructors
NLabels == 2        \* nlabels given to the constructors
MaxCellTime == 4    \* clock horizon of the single-cell specification
MaxDelta == 2       \* largest |delta| of the single-cell specification

Topologies == {"DD", "SD", "SS"}
OuterDense(tp) == tp = "DD"
InnerDense(tp) == tp \in {"DD", "SD"}

\* The reserved label of the sparse tables (README, "Labels and features").
Sentinel == ""
FeatNames == <<"f1", "f2", "f3", "f4">>
LabelNames == <<"A", "B", "C", "D">>
SparseFeats == {FeatNames[i] : i \in 1..NFeats}
SparseLabels == {LabelNames[i] : i \in 1..NLabels}
DenseFeats == 0..(NFeats - 1)
DenseLabels == 0..(NLabels - 1)
FeatsOf(tp) == IF OuterDense(tp) THEN DenseFeats ELSE SparseFeats
LabelsOf(tp) == IF InnerDense(tp) THEN DenseLabels ELSE SparseLabels

\* Position of a label in the deterministic tie-break order.
LabelOrd(tp, l) ==
  IF InnerDense(tp) THEN l
  ELSE IF l = Sentinel THEN 0
  ELSE CHOOSE i \in 1..Len(LabelNames) : LabelNames[i] = l

\* ------------------------------------------------------------- scalars
\* Scalars are exact rationals n/d, d > 0, in lowest terms.
RECURSIVE Gcd(_, _)
Gcd(a, b) == IF b = 0 THEN a ELSE Gcd(b, a % b)
Abs(x) == IF x < 0 THEN -x ELSE x
Rat(n, d) ==
  LET g == Gcd(Abs(n), d) IN [n |-> n \div g, d |-> d \div g]
Zero == [n |-> 0, d |-> 1]
RAdd(a, b) == Rat(a.n * b.d + b.n * a.d, a.d * b.d)
RLess(a, b) == a.n * b.d < b.n * a.d

\* ------------------------------------------------------- weight cells
\* An averaged weight: weight_, the summed weight and its timestamp.
ZeroCell == [weight |-> 0, aweight |-> 0, time |-> 0]

\* A freshening that adds the weight once, whatever time has elapsed.
Freshen_OneStep(c, t) ==
  [c EXCEPT !.aweight = c.aweight + (IF t = c.time THEN 0 ELSE c.weight), !.time = t]

Freshen(c, t) ==
  [c EXCEPT !.aweight = c.aweight + (t - c.time) * c.weight, !.time = t]

Update(c, delta, t) ==
  LET f == Freshen(c, t) IN [f EXCEPT !.weight = f.weight + delta]

GetAverage(c, t) ==
  IF t = 0 THEN Zero ELSE Rat(Freshen(c, t).aweight, t)

Get(c) == Rat(c.weight, 1)

\* ------------------------------------------------------------- tables
\* A table is a function from the present outer keys to inner tables, an
\* inner table a function from the present inner keys to cells.
ZeroInner(tp, inner_size, zero) ==
  IF InnerDense(tp) THEN [j \in 0..(inner_size - 1) |-> zero] ELSE <<>>

\* Base(outer_size, inner_size): dense outer tables hold outer_size inner
\* tables from construction, sparse ones start empty.
Construct(tp, outer_size, inner_size, zero) ==
  [inner_size |-> inner_size,
   table |-> IF OuterDense(tp)
             THEN [i \in 0..(outer_size - 1) |-> ZeroInner(tp, inner_size, zero)]
             ELSE <<>>]

OuterSize(m) == Cardinality(DOMAIN m.table)
InnerSize(m) == m.inner_size

\* Non-creating read of a cell value: an absent entry reads as zero.
Lookup(table, f, l, zero) ==
  IF f \in DOMAIN table /\ l \in DOMAIN table[f] THEN table[f][l] ELSE zero

\* Mutable access: creates the outer and the inner entry when absent.
Mutable(tp, inner_size, table, f, l, zero) ==
  LET inner == IF f \in DOMAIN table THEN table[f]
               ELSE ZeroInner(tp, inner_size, zero)
  IN IF l \in DOMAIN inner THEN inner[l] ELSE zero

Store(tp, inner_size, table, f, l, c, zero) ==
  LET inner == IF f \in DOMAIN table THEN table[f]
               ELSE ZeroInner(tp, inner_size, zero)
      inner2 == [k \in DOMAIN inner \cup {l} |-> IF k = l THEN c ELSE inner[k]]
  IN [g \in DOMAIN table \cup {f} |-> IF g = f THEN inner2 ELSE table[g]]

\* ------------------------------------------------------------ scoring
RECURSIVE SumOver(_, _, _)
SumOver(S, val(_), acc) ==
  IF S = {} THEN acc
  ELSE LET x == CHOOSE y \in S : TRUE
       IN SumOver(S \ {x}, val, RAdd(acc, val(x)))

\* Score of one label: the sum of the weights of the given features.
Score(table, feats, l) ==
  LET val(f) == Lookup(table, f, l, Zero) IN SumOver(feats, val, Zero)

\* The labels that receive a score.
Candidates(tp, inner_size, table, feats) ==
  IF InnerDense(tp) THEN 0..(inner_size - 1)
  ELSE UNION {DOMAIN table[f] : f \in feats \cap DOMAIN table}

\* The best-scoring label, the first in label order among equals; the
\* reserved label when a sparse inner table has no scored label at all.
ArgMax(tp, cands, score(_)) ==
  IF cands = {} THEN Sentinel
  ELSE CHOOSE l \in cands : \A m \in cands :
         \/ RLess(score(m), score(l))
         \/ score(m) = score(l) /\ LabelOrd(tp, l) <= LabelOrd(tp, m)

Predict(tp, inner_size, table, feats) ==
  LET cands == Candidates(tp, inner_size, table, feats)
      scores == [l \in cands |-> Score(table, feats, l)]
      score(l) == scores[l]
  IN ArgMax(tp, cands, score)

\* The true weights of an averaged table, as scalars.
TrueWeights(table) == [f \in DOMAIN table |-> [l \in DOMAIN table[f] |-> Get(table[f][l])]]

\* ------------------------------------------------------------- state
VARIABLES
  topo,     \* the topology of the models of this run
  avg,      \* the averaged model: [time, inner_size, table of cells]
  model,    \* the unaveraged model held by the program, if any
  strm,     \* the byte stream last written
  written,  \* the model and metadata handed to the last Write
  op,       \* the last operation, its arguments and its result
  calls,    \* number of Train calls made
  cell,     \* a single averaged weight
  clock,    \* the clock of the single averaged weight
  direct    \* sum: the true weight of `cell' summed over the steps
            \* [0, clock); last: the time of its last update (-1: none)

vars == <<topo, avg, model, strm, written, op, calls, cell, clock, direct>>
cellVars == <<cell, clock, direct>>

NoModel == [ok |-> FALSE]
NoStream == [good |-> FALSE, bytes |-> <<>>]
Alive == op.name # "crash"

\* -------------------------------------------------- averaged perceptron
NewAveraged(tp) ==
  [time |-> 0] @@ Construct(tp, NFeats, NLabels, ZeroCell)

RECURSIVE TrainTable(_, _, _, _, _, _, _)
\* The perceptron update: +1 on the gold cell and -1 on the predicted cell
\* of every given feature, each through Update(delta, time).
TrainTable(tp, inner_size, table, feats, gold, pred, time) ==
  IF feats = {} THEN table
  ELSE LET f == CHOOSE x \in feats : TRUE
           g == Update(Mutable(tp, inner_size, table, f, gold, ZeroCell), 1, time)
           t1 == Store(tp, inner_size, table, f, gold, g, ZeroCell)
           p == Update(Mutable(tp, inner_size, t1, f, pred, ZeroCell), -1, time)
           t2 == Store(tp, inner_size, t1, f, pred, p, ZeroCell)
       IN TrainTable(tp, inner_size, t2, feats \ {f}, gold, pred, time)

\* A training step that advances the clock only after a mistake.
TrainResult_TickOnMistake(tp, a, feats, gold) ==
  LET pred == Predict(tp, a.inner_size, TrueWeights(a.table), feats)
  IN IF pred = gold THEN [pred |-> pred, avg |-> a]
     ELSE [pred |-> pred,
           avg |-> [a EXCEPT
                      !.table = TrainTable(tp, a.inner_size, a.table, feats, gold, pred, a.time),
                      !.time = a.time + 1]]

TrainResult(tp, a, feats, gold) ==
  LET pred == Predict(tp, a.inner_size, TrueWeights(a.table), feats)
      tbl == IF pred = gold THEN a.table
             ELSE TrainTable(tp, a.inner_size, a.table, feats, gold, pred, a.time)
  IN [pred |-> pred, avg |-> [a EXCEPT !.table = tbl, !.time = a.time + 1]]

Train(feats, gold) ==
  /\ Alive
  /\ avg.time < MaxTime
  /\ LET r == TrainResult(topo, avg, feats, gold)
     IN /\ avg' = r.avg
        /\ op' = [name |-> "train", feats |-> feats, gold |-> gold, pred |-> r.pred]
  /\ calls' = calls + 1
  /\ UNCHANGED <<topo, model, strm, written, cellVars>>

\* ------------------------------------- averaged -> unaveraged conversion
\* The cells the converting constructor visits in one inner table.
Visited(tp, inner) ==
  IF InnerDense(tp) THEN DOMAIN inner ELSE DOMAIN inner \ {Sentinel}

\* A conversion that copies the true weights instead of the averages.
FreezeModel_TrueWeights(tp, a) ==
  LET base == Construct(tp, OuterSize(a), InnerSize(a), Zero)
  IN [ok |-> TRUE,
      inner_size |-> base.inner_size,
      table |-> [f \in DOMAIN a.table |->
                   [l \in Visited(tp, a.table[f]) |-> Get(a.table[f][l])]]]

\* The unaveraged model built from an averaged one.
FreezeModel(tp, a) ==
  LET base == Construct(tp, OuterSize(a), InnerSize(a), Zero)
      time == a.time
  IN [ok |-> TRUE,
      inner_size |-> base.inner_size,
      table |-> [f \in DOMAIN a.table |->
                   LET ref == IF f \in DOMAIN base.table THEN base.table[f]
                              ELSE ZeroInner(tp, base.inner_size, Zero)
                   IN [l \in DOMAIN ref \cup Visited(tp, a.table[f]) |->
                         IF l \in Visited(tp, a.table[f])
                         THEN GetAverage(a.table[f][l], time)
                         ELSE ref[l]]]]

\* A conversion that moves the weights out of the averaged model.
FreezeAvg_MovesWeights(tp, a) ==
  [a EXCEPT !.table =
     [f \in DOMAIN a.table |->
        [l \in DOMAIN a.table[f] |->
           IF l \in Visited(tp, a.table[f])
           THEN [Freshen(a.table[f][l], a.time) EXCEPT !.weight = 0]
           ELSE a.table[f][l]]]]

\* What the constructor leaves in the averaged model: GetAverage freshens
\* the summed weight of every cell it is called on.
FreezeAvg(tp, a) ==
  [a EXCEPT !.table =
     [f \in DOMAIN a.table |->
        [l \in DOMAIN a.table[f] |->
           IF l \in Visited(tp, a.table[f])
           THEN Freshen(a.table[f][l], a.time)
           ELSE a.table[f][l]]]]

Freeze ==
  /\ Alive
  /\ model' = FreezeModel(topo, avg)
  /\ avg' = FreezeAvg(topo, avg)
  /\ op' = [name |-> "freeze"]
  /\ UNCHANGED <<topo, strm, written, calls, cellVars>>

\* --------------------------------------------------- protobuf messages
\* A message: [metadata, inner_size, table].  The table of a DD message is
\* a sequence of inner tables, that of an SD / SS message a map from
\* feature key to inner table; a dense inner table is a sequence of
\* scalars, a sparse one a map from label key to scalar.
EmptyPb == [metadata |-> "", inner_size |-> 0, table |-> <<>>]

\* The wire form: a sequence of tagged fields [tag, str, num, val], of
\* which a field uses the component of its type.  Fields holding the proto3
\* default value are not emitted; map entries are emitted one per key.
NoVal(tp) == IF OuterDense(tp) THEN <<>> ELSE [key |-> "", value |-> <<>>]
StrField(tp, tag, x) == [tag |-> tag, str |-> x, num |-> 0, val |-> NoVal(tp)]
NumField(tp, tag, x) == [tag |-> tag, str |-> "", num |-> x, val |-> NoVal(tp)]
ValField(tp, tag, x) == [tag |-> tag, str |-> "", num |-> 0, val |-> x]

Serialize(tp, pb) ==
  LET meta == IF pb.metadata = "" THEN <<>>
              ELSE <<StrField(tp, 1, pb.metadata)>>
      isz == IF pb.inner_size = 0 THEN <<>>
             ELSE <<NumField(tp, 2, pb.inner_size)>>
      ks == SelectSeq(FeatNames, LAMBDA k : k \in DOMAIN pb.table)
      tbl == IF OuterDense(tp)
             THEN [i \in 1..Len(pb.table) |-> ValField(tp, 3, pb.table[i])]
             ELSE [i \in 1..Len(ks) |->
                     ValField(tp, 3, [key |-> ks[i], value |-> pb.table[ks[i]]])]
  IN meta \o isz \o tbl

RECURSIVE ParseFields(_, _, _, _)
ParseFields(tp, bytes, i, pb) ==
  IF i > Len(bytes) THEN [ok |-> TRUE, pb |-> pb]
  ELSE LET f == bytes[i] IN
    IF f.tag = 0 THEN [ok |-> FALSE]
    ELSE IF f.tag = 1
      THEN ParseFields(tp, bytes, i + 1, [pb EXCEPT !.metadata = f.str])
    ELSE IF f.tag = 2
      THEN ParseFields(tp, bytes, i + 1, [pb EXCEPT !.inner_size = f.num])
    ELSE IF f.tag = 3
      THEN ParseFields(tp, bytes, i + 1,
             [pb EXCEPT !.table =
                IF OuterDense(tp) THEN Append(pb.table, f.val)
                ELSE [k \in DOMAIN pb.table \cup {f.val.key} |->
                        IF k = f.val.key THEN f.val.value ELSE pb.table[k]]])
    ELSE ParseFields(tp, bytes, i + 1, pb)

\* ParseFromIstream: fails on a field no message can hold (tag 0), skips
\* unknown fields, the last occurrence of a singular field or map key wins.
Parse(tp, bytes) == ParseFields(tp, bytes, 1, EmptyPb)

\* ----------------------------------------------------------------- Write
\* Write variants: one that forgets set_metadata, one that does not skip
\* the reserved label, one that skips cells holding zero.
WritePb_NoMetadata(tp, m, metadata) ==
  [metadata |-> "",
   inner_size |-> InnerSize(m),
   table |->
     IF tp = "DD"
     THEN [i \in 1..OuterSize(m) |->
             [j \in 1..Cardinality(DOMAIN m.table[i - 1]) |-> m.table[i - 1][j - 1]]]
     ELSE IF tp = "SD"
     THEN [f \in DOMAIN m.table |->
             [j \in 1..InnerSize(m) |-> m.table[f][j - 1]]]
     ELSE [f \in DOMAIN m.table |->
             [l \in DOMAIN m.table[f] \ {Sentinel} |-> m.table[f][l]]]]

WritePb_KeepSentinel(tp, m, metadata) ==
  [metadata |-> metadata,
   inner_size |-> InnerSize(m),
   table |->
     IF tp = "DD"
     THEN [i \in 1..OuterSize(m) |->
             [j \in 1..Cardinality(DOMAIN m.table[i - 1]) |-> m.table[i - 1][j - 1]]]
     ELSE IF tp = "SD"
     THEN [f \in DOMAIN m.table |->
             [j \in 1..InnerSize(m) |-> m.table[f][j - 1]]]
     ELSE [f \in DOMAIN m.table |->
             [l \in DOMAIN m.table[f] |-> m.table[f][l]]]]

WritePb_DropZeros(tp, m, metadata) ==
  [metadata |-> metadata,
   inner_size |-> InnerSize(m),
   table |->
     IF tp = "DD"
     THEN [i \in 1..OuterSize(m) |->
             [j \in 1..Cardinality(DOMAIN m.table[i - 1]) |-> m.table[i - 1][j - 1]]]
     ELSE IF tp = "SD"
     THEN [f \in DOMAIN m.table |->
             [j \in 1..InnerSize(m) |-> m.table[f][j - 1]]]
     ELSE [f \in DOMAIN m.table |->
             [l \in {k \in DOMAIN m.table[f] \ {Sentinel} : m.table[f][k] # Zero} |->
                m.table[f][l]]]]

\* The message Write fills in before serializing it.
WritePb(tp, m, metadata) ==
  [metadata |-> metadata,
   inner_size |-> InnerSize(m),
   table |->
     IF tp = "DD"
     THEN [i \in 1..OuterSize(m) |->
             [j \in 1..Cardinality(DOMAIN m.table[i - 1]) |-> m.table[i - 1][j - 1]]]
     ELSE IF tp = "SD"
     THEN [f \in DOMAIN m.table |->
             [j \in 1..InnerSize(m) |-> m.table[f][j - 1]]]
     ELSE [f \in DOMAIN m.table |->
             [l \in DOMAIN m.table[f] \ {Sentinel} |-> m.table[f][l]]]]

Metadata == {"", "meta"}

Write(metadata, good) ==
  /\ Alive
  /\ model.ok
  /\ strm' = [good |-> good,
              bytes |-> IF good THEN Serialize(topo, WritePb(topo, model, metadata))
                        ELSE <<>>]
  /\ written' = IF good THEN [ok |-> TRUE, model |-> model, metadata |-> metadata]
                 ELSE [ok |-> FALSE]
  /\ op' = [name |-> "write", ok |-> good]
  /\ UNCHANGED <<topo, avg, model, calls, cellVars>>

\* ------------------------------------------------------------------ Read
\* Reading a dense inner table of fewer than inner_size scalars indexes
\* the repeated field out of range.
ReadUB(tp, pb) ==
  /\ InnerDense(tp)
  /\ \E k \in DOMAIN pb.table : Len(pb.table[k]) < pb.inner_size

\* Read variants: one that reads dense element j + 1 for cell j, one that
\* hands the sizes to the constructor in the wrong order.
ReadModel_Shifted(tp, pb, garbage) ==
  LET base == Construct(tp, IF OuterDense(tp) THEN Len(pb.table)
                            ELSE Cardinality(DOMAIN pb.table),
                        pb.inner_size, Zero)
      at(s, j) == IF j + 2 <= Len(s) THEN s[j + 2] ELSE garbage
  IN [ok |-> TRUE,
      inner_size |-> base.inner_size,
      table |->
        IF tp = "DD"
        THEN [i \in DOMAIN base.table |->
                [j \in DOMAIN base.table[i] |-> at(pb.table[i + 1], j)]]
        ELSE IF tp = "SD"
        THEN [f \in DOMAIN pb.table |->
                [j \in DOMAIN ZeroInner(tp, base.inner_size, Zero) |-> at(pb.table[f], j)]]
        ELSE [f \in DOMAIN pb.table |->
                [l \in DOMAIN pb.table[f] |-> pb.table[f][l]]]]

ReadModel_Swapped(tp, pb, garbage) ==
  LET n == IF OuterDense(tp) THEN Len(pb.table) ELSE Cardinality(DOMAIN pb.table)
      base == Construct(tp, pb.inner_size, n, Zero)
      at(s, j) == IF j + 1 <= Len(s) THEN s[j + 1] ELSE garbage
  IN [ok |-> TRUE,
      inner_size |-> base.inner_size,
      table |->
        IF tp = "DD"
        THEN [i \in DOMAIN base.table |->
                [j \in DOMAIN base.table[i] |->
                   IF i + 1 <= Len(pb.table) THEN at(pb.table[i + 1], j) ELSE Zero]]
        ELSE IF tp = "SD"
        THEN [f \in DOMAIN pb.table |->
                [j \in DOMAIN ZeroInner(tp, base.inner_size, Zero) |-> at(pb.table[f], j)]]
        ELSE [f \in DOMAIN pb.table |->
                [l \in DOMAIN pb.table[f] |-> pb.table[f][l]]]]

\* The model Read builds from a parsed message; `garbage' is what an
\* out-of-range element of a repeated field reads as.
ReadModel(tp, pb, garbage) ==
  LET base == Construct(tp, IF OuterDense(tp) THEN Len(pb.table)
                            ELSE Cardinality(DOMAIN pb.table),
                        pb.inner_size, Zero)
      at(s, j) == IF j + 1 <= Len(s) THEN s[j + 1] ELSE garbage
  IN [ok |-> TRUE,
      inner_size |-> base.inner_size,
      table |->
        IF tp = "DD"
        THEN [i \in DOMAIN base.table |->
                [j \in DOMAIN base.table[i] |-> at(pb.table[i + 1], j)]]
        ELSE IF tp = "SD"
        THEN [f \in DOMAIN pb.table |->
                [j \in DOMAIN ZeroInner(tp, base.inner_size, Zero) |-> at(pb.table[f], j)]]
        ELSE [f \in DOMAIN pb.table |->
                [l \in DOMAIN pb.table[f] |-> pb.table[f][l]]]]

\* Scalars of the hand-made messages and of out-of-range reads.
Vals == {Zero, Rat(1, 2)}
Garbage == {Zero, Rat(7, 1)}

InnerSeqs == UNION {[1..n -> Vals] : n \in 0..NLabels}
InnerMaps == UNION {[K -> Vals] : K \in SUBSET (SparseLabels \cup {Sentinel})}

\* Messages a byte stream handed to Read may hold: at most one outer entry,
\* inner tables of every length up to NLabels, and for the dense inner
\* tables every declared inner_size up to NLabels.
CraftedPb(tp) ==
  LET tables ==
        IF tp = "DD" THEN {<<>>} \cup {<<s>> : s \in InnerSeqs}
        ELSE IF tp = "SD" THEN {<<>>} \cup {FeatNames[1] :> s : s \in InnerSeqs}
        ELSE {<<>>} \cup {FeatNames[1] :> m : m \in InnerMaps}
      sizes == IF InnerDense(tp) THEN 0..NLabels ELSE {0, NLabels}
  IN {[metadata |-> "hdr", inner_size |-> n, table |-> t] : n \in sizes, t \in tables}

\* A stream that does not parse, and one carrying an unknown field.
BadBytes(tp) == <<NumField(tp, 2, 1), NumField(tp, 0, 0)>>
OddBytes(tp) == <<NumField(tp, 4, 0), NumField(tp, 2, 1)>>

CraftedBytes(tp) ==
  {Serialize(tp, pb) : pb \in CraftedPb(tp)} \cup {BadBytes(tp), OddBytes(tp)}

\* What the out-of-range read may do: abort, or yield some scalar.  A
\* stream whose Read makes no such access has a single outcome.
UbOutcomes(tp, bytes) ==
  LET p == Parse(tp, bytes) IN
  IF p.ok /\ ReadUB(tp, p.pb)
  THEN {[crash |-> TRUE, garbage |-> Zero]} \cup
       {[crash |-> FALSE, garbage |-> g] : g \in Garbage}
  ELSE {[crash |-> FALSE, garbage |-> Zero]}

\* Read of the bytes in the stream; the operation returns nullptr
\* ("null"), a model, or the process dies in the out-of-range read.
Read(bytes, src, ub) ==
  /\ Alive
  /\ LET p == Parse(topo, bytes) IN
       IF ~p.ok
       THEN /\ op' = [name |-> "read", src |-> src, outcome |-> "null"]
            /\ model' = model
       ELSE IF ReadUB(topo, p.pb) /\ ub.crash
       THEN /\ op' = [name |-> "crash", src |-> src, outcome |-> "crash"]
            /\ model' = model
       ELSE /\ op' = [name |-> "read", src |-> src, outcome |-> "model"]
            /\ model' = ReadModel(topo, p.pb, ub.garbage)
  /\ UNCHANGED <<topo, avg, calls, cellVars>>

\* Read of a stream holding bytes that did not come from Write.
ReadCrafted ==
  \E bytes \in CraftedBytes(topo) : \E ub \in UbOutcomes(topo, bytes) :
     /\ Read(bytes, "crafted", ub)
     /\ strm' = [good |-> TRUE, bytes |-> bytes]
     /\ written' = [ok |-> FALSE]

\* Read of the stream the last successful Write filled.
ReadBack ==
  /\ strm.good
  /\ written.ok
  /\ \E ub \in UbOutcomes(topo, strm.bytes) : Read(strm.bytes, "written", ub)
  /\ UNCHANGED <<strm, written>>

\* ------------------------------------------------ a single weight cell
Deltas == {d \in (-MaxDelta)..MaxDelta : d # 0}

\* Update(delta, clock) at a time later than the previous update.
CellUpdate(delta) ==
  /\ direct.last < clock
  /\ cell' = Update(cell, delta, clock)
  /\ direct' = [direct EXCEPT !.last = clock]
  /\ op' = [name |-> "update"]
  /\ UNCHANGED <<topo, avg, model, strm, written, calls, clock>>

\* One step of the clock: the weight now held is the weight in force at
\* step `clock'.
CellTick ==
  /\ clock < MaxCellTime
  /\ clock' = clock + 1
  /\ direct' = [direct EXCEPT !.sum = direct.sum + cell.weight]
  /\ op' = [name |-> "tick"]
  /\ UNCHANGED <<topo, avg, model, strm, written, calls, cell>>

\* GetAverage(clock): returns the average and leaves the cell freshened.
CellGetAverage ==
  /\ cell' = Freshen(cell, clock)
  /\ op' = [name |-> "average", value |-> GetAverage(cell, clock)]
  /\ UNCHANGED <<topo, avg, model, strm, written, calls, clock, direct>>

NextW ==
  \/ \E delta \in Deltas : CellUpdate(delta)
  \/ CellTick
  \/ CellGetAverage

\* -------------------------------------------------------- specification
Init ==
  /\ topo \in Topologies
  /\ avg = NewAveraged(topo)
  /\ model = NoModel
  /\ strm = NoStream
  /\ written = [ok |-> FALSE]
  /\ op = [name |-> "new"]
  /\ calls = 0
  /\ cell = ZeroCell
  /\ clock = 0
  /\ direct = [sum |-> 0, last |-> -1]

\* A fresh averaged model, and the one a Train call on all the features
\* with the last label as gold leaves.
LastLabel(tp) == IF InnerDense(tp) THEN NLabels - 1 ELSE LabelNames[NLabels]
TrainedOnce(tp) ==
  {NewAveraged(tp), TrainResult(tp, NewAveraged(tp), FeatsOf(tp), LastLabel(tp)).avg}

InitIO ==
  /\ topo \in Topologies
  /\ avg \in TrainedOnce(topo)
  /\ model = NoModel
  /\ strm = NoStream
  /\ written = [ok |-> FALSE]
  /\ op = [name |-> "new"]
  /\ calls = 0
  /\ cell = ZeroCell
  /\ clock = 0
  /\ direct = [sum |-> 0, last |-> -1]

InitW ==
  /\ Init
  /\ topo = "DD"

Next ==
  \/ \E feats \in SUBSET FeatsOf(topo), gold \in LabelsOf(topo) : Train(feats, gold)
  \/ Freeze

NextIO ==
  \/ Freeze
  \/ \E metadata \in Metadata, good \in BOOLEAN : Write(metadata, good)
  \/ ReadCrafted
  \/ ReadBack

Spec == Init /\ [][Next]_vars
SpecIO == InitIO /\ [][NextIO]_vars
SpecW == InitW /\ [][NextW]_vars

\* =================================================== Read / Write claims
\* The value an unaveraged model reports for a cell: absent reads as zero.
ValueAt(m, f, l) == Lookup(m.table, f, l, Zero)

\* The labels of an inner table other than the reserved one.
RealLabels(tp, inner) == IF InnerDense(tp) THEN DOMAIN inner ELSE DOMAIN inner \ {Sentinel}

\* The last operation was a Read of the bytes a successful Write produced.
ReadOfWritten == op.name \in {"read", "crash"} /\ op.src = "written"

\* The message the stream holds.
Emitted == Parse(topo, strm.bytes).pb

\* C1 as stated: after a successful Write of M, Read of the written bytes
\* succeeds and every cell present in M has the same value in the model read.
C1_RoundTripEveryCell ==
  ReadOfWritten =>
    /\ op.outcome = "model"
    /\ \A f \in DOMAIN written.model.table : \A l \in DOMAIN written.model.table[f] :
         ValueAt(model, f, l) = written.model.table[f][l]

\* C1 amended: after a successful Write of M, Read of the written bytes
\* succeeds and every cell present in M under a label other than the
\* reserved empty string has the same value in the model read; a cell of M
\* under the reserved label is not written and is absent from the model read.
C1_RoundTrip ==
  ReadOfWritten =>
    /\ op.outcome = "model"
    /\ \A f \in DOMAIN written.model.table :
         /\ f \in DOMAIN model.table
         /\ \A l \in RealLabels(topo, written.model.table[f]) :
              /\ l \in DOMAIN model.table[f]
              /\ model.table[f][l] = written.model.table[f][l]
         /\ topo = "SS" => Sentinel \notin DOMAIN model.table[f]

C1_Witness ==
  /\ ReadOfWritten
  /\ topo = "SS"
  /\ \E f \in DOMAIN written.model.table :
       /\ Sentinel \in DOMAIN written.model.table[f]
       /\ \E l \in RealLabels(topo, written.model.table[f]) :
            written.model.table[f][l] # Zero

\* Malformed input: bytes that do not parse, or (dense inner tables) a
\* message with an inner table whose length is not inner_size.
Malformed(tp, bytes) ==
  LET p == Parse(tp, bytes) IN
  \/ ~p.ok
  \/ /\ InnerDense(tp)
     /\ \E k \in DOMAIN p.pb.table : Len(p.pb.table[k]) # p.pb.inner_size

\* C4: Read of malformed input returns nullptr and builds no model.
C4_MalformedReadFails ==
  (op.name \in {"read", "crash"} /\ Malformed(topo, strm.bytes)) => op.outcome = "null"

\* C5 as stated: the bytes Write(M, metadata) produced decode to the same
\* metadata string and to M's weights, every cell of M included.
C5_MetadataAndEveryWeight ==
  ReadOfWritten =>
    /\ Emitted.metadata = written.metadata
    /\ op.outcome = "model"
    /\ \A f \in DOMAIN written.model.table : \A l \in DOMAIN written.model.table[f] :
         ValueAt(model, f, l) = written.model.table[f][l]

\* C5 amended: the bytes Write(M, metadata) produced decode to the identical
\* metadata string, and to M's weights at every cell under a label other
\* than the reserved empty string.
C5_Metadata ==
  ReadOfWritten =>
    /\ Emitted.metadata = written.metadata
    /\ op.outcome = "model"
    /\ \A f \in DOMAIN written.model.table : \A l \in RealLabels(topo, written.model.table[f]) :
         ValueAt(model, f, l) = written.model.table[f][l]

C5_Witness ==
  /\ ReadOfWritten
  /\ written.metadata = "meta"
  /\ topo = "DD"
  /\ \E f \in DOMAIN model.table : \E l \in DOMAIN model.table[f] : model.table[f][l] # Zero

\* C6: a successful Read returns a model whose outer size is the number of
\* encoded outer entries and whose inner size is the encoded inner_size, and
\* every entry absent from a sparse encoding reads as zero.
C6_DecodedSizes ==
  (op.name = "read" /\ op.outcome = "model") =>
    /\ OuterSize(model) = IF OuterDense(topo) THEN Len(Emitted.table)
                          ELSE Cardinality(DOMAIN Emitted.table)
    /\ InnerSize(model) = Emitted.inner_size
    /\ topo = "SD" =>
         \A f \in SparseFeats \ DOMAIN Emitted.table : \A l \in 0..(Emitted.inner_size - 1) :
            ValueAt(model, f, l) = Zero
    /\ topo = "SS" =>
         \A f \in SparseFeats : \A l \in SparseLabels \cup {Sentinel} :
            (f \notin DOMAIN Emitted.table \/ l \notin DOMAIN Emitted.table[f])
              => ValueAt(model, f, l) = Zero

C6_Witness ==
  /\ op.name = "read"
  /\ op.outcome = "model"
  /\ topo = "SS"
  /\ Emitted.inner_size = NLabels
  /\ \E f \in DOMAIN Emitted.table :
       /\ \E l \in SparseLabels : l \in DOMAIN Emitted.table[f] /\ Emitted.table[f][l] # Zero
       /\ \E l \in SparseLabels : l \notin DOMAIN Emitted.table[f]

\* C7: in the sparse/sparse topology no inner table Write emits has the
\* empty-string key, whatever the model holds, and the model built from an
\* averaged model has no cell under the empty-string label.
C7_SentinelStaysInside ==
  topo = "SS" =>
    /\ written.ok => \A f \in DOMAIN Emitted.table : Sentinel \notin DOMAIN Emitted.table[f]
    /\ op.name = "freeze" => \A f \in DOMAIN model.table : Sentinel \notin DOMAIN model.table[f]

C7_Witness ==
  /\ topo = "SS"
  /\ op.name = "write"
  /\ written.ok
  /\ \E f \in DOMAIN written.model.table : Sentinel \in DOMAIN written.model.table[f]
  /\ \E f \in DOMAIN avg.table : Sentinel \in DOMAIN avg.table[f]

\* C8 as stated: the sparse-inner mapping Write emits has no entry whose
\* scalar is zero.
C8_NoZeroEmitted ==
  (topo = "SS" /\ written.ok) =>
    \A f \in DOMAIN Emitted.table : \A l \in DOMAIN Emitted.table[f] :
       Emitted.table[f][l] # Zero

\* C8 amended: the sparse-inner mapping Write emits for a feature holds
\* exactly the cells the model has materialized for it under non-empty
\* labels, each with its value, a zero value included; only absent cells
\* and the reserved label are omitted.
C8_EmitsMaterialized ==
  (topo = "SS" /\ written.ok) =>
    /\ DOMAIN Emitted.table = DOMAIN written.model.table
    /\ \A f \in DOMAIN written.model.table :
         /\ DOMAIN Emitted.table[f] = DOMAIN written.model.table[f] \ {Sentinel}
         /\ \A l \in DOMAIN Emitted.table[f] :
              Emitted.table[f][l] = written.model.table[f][l]

C8_Witness ==
  /\ topo = "SS"
  /\ op.name = "write"
  /\ written.ok
  /\ \E f \in DOMAIN written.model.table : \E l \in SparseLabels :
       /\ l \in DOMAIN written.model.table[f]
       /\ written.model.table[f][l] = Zero

\* =============================================== training / freeze claims
\* Scoring by hand from the averages of an averaged model at its clock.
ManualLabels(tp, a, x, reserved) ==
  IF InnerDense(tp) THEN 0..(a.inner_size - 1)
  ELSE UNION {DOMAIN a.table[f] : f \in x \cap DOMAIN a.table}
         \ (IF reserved THEN {} ELSE {Sentinel})

ManualScore(a, x, l) ==
  LET val(f) == IF f \in DOMAIN a.table /\ l \in DOMAIN a.table[f]
                THEN GetAverage(a.table[f][l], a.time) ELSE Zero
  IN SumOver(x, val, Zero)

ManualPredict(tp, a, x, reserved) ==
  LET labels == ManualLabels(tp, a, x, reserved)
      scores == [l \in labels |-> ManualScore(a, x, l)]
      score(l) == scores[l]
  IN ArgMax(tp, labels, score)

\* F is the conversion of A: same sizes, the average of every cell of A
\* (those under the reserved label too iff `reserved'), same predictions.
FrozenFrom(tp, a, m, reserved) ==
  /\ OuterSize(m) = OuterSize(a)
  /\ InnerSize(m) = InnerSize(a)
  /\ \A f \in DOMAIN a.table :
       \A l \in (IF reserved THEN DOMAIN a.table[f] ELSE RealLabels(tp, a.table[f])) :
          ValueAt(m, f, l) = GetAverage(a.table[f][l], a.time)
  /\ \A x \in SUBSET FeatsOf(tp) :
       Predict(tp, m.inner_size, m.table, x) = ManualPredict(tp, a, x, reserved)

\* Both forms of C2 are stated of the state the conversion leaves: F is the
\* model just built and A the averaged model at its unchanged clock t.
\* C2 as stated: the model F built from an averaged model A has A's sizes,
\* holds GetAverage(t) at every cell present in A, and predicts the argmax
\* of the scores computed by hand from the averages of A's cells.
C2_FreezeEveryCell ==
  op.name = "freeze" => FrozenFrom(topo, avg, model, TRUE)

\* C2 amended: the model F built from an averaged model A has A's sizes,
\* holds GetAverage(t) at every cell present in A under a label other than
\* the reserved empty string and has no cell under the reserved label, and
\* predicts the argmax of the scores computed by hand from the averages of
\* those cells.
C2_Freeze ==
  op.name = "freeze" =>
    /\ FrozenFrom(topo, avg, model, FALSE)
    /\ topo = "SS" => \A f \in DOMAIN model.table : Sentinel \notin DOMAIN model.table[f]

C2_Witness ==
  /\ op.name = "freeze"
  /\ avg.time = MaxTime
  /\ topo = "SS"
  /\ \E f \in DOMAIN avg.table : Sentinel \in DOMAIN avg.table[f]
  /\ \E f \in DOMAIN model.table : \E l \in DOMAIN model.table[f] :
       model.table[f][l].d > 1

\* C3: the conversion leaves the averaged model's clock, keys and true
\* weights as they were, and training the averaged model afterwards changes
\* nothing in the model that was built.
C3_FreezeFrame ==
  [][/\ op'.name = "freeze" =>
          /\ avg'.time = avg.time
          /\ DOMAIN avg'.table = DOMAIN avg.table
          /\ \A f \in DOMAIN avg.table :
               /\ DOMAIN avg'.table[f] = DOMAIN avg.table[f]
               /\ \A l \in DOMAIN avg.table[f] :
                    Get(avg'.table[f][l]) = Get(avg.table[f][l])
     /\ calls' # calls => model' = model
    ]_vars

C3_Witness ==
  /\ model.ok
  /\ op.name = "train"
  /\ op.pred # op.gold
  /\ op.feats # {}
  /\ \E f \in DOMAIN model.table : \E l \in DOMAIN model.table[f] :
       model.table[f][l] # GetAverage(avg.table[f][l], avg.time)

\* The true weight of a cell of an averaged model; an absent cell weighs 0.
TrueWeight(a, f, l) == Lookup(a.table, f, l, ZeroCell).weight
AllLabels(tp) == IF InnerDense(tp) THEN DenseLabels ELSE SparseLabels \cup {Sentinel}

\* `pred' is the best-scoring label of `feats' under the true weights of
\* a, the first in label order among the best.
BestLabel(tp, a, feats, pred) ==
  LET cands == Candidates(tp, a.inner_size, a.table, feats)
      sc(l) == Score(TrueWeights(a.table), feats, l)
  IN IF cands = {} THEN pred = Sentinel
     ELSE /\ pred \in cands
          /\ \A m \in cands :
               /\ ~RLess(sc(pred), sc(m))
               /\ sc(m) = sc(pred) => LabelOrd(tp, pred) <= LabelOrd(tp, m)

\* C9: the clock equals the number of Train calls made; a call adds exactly
\* 1 to it; a call that predicts the gold label changes no true weight, a
\* call that does not adds +1 to the gold cell and -1 to the predicted cell
\* of every given feature and changes no other cell; the label returned is
\* the prediction under the weights before the update.
C9_TrainStep ==
  /\ [](avg.time = calls)
  /\ [][/\ calls' = calls => avg'.time = avg.time
        /\ calls' # calls =>
             /\ calls' = calls + 1
             /\ avg'.time = avg.time + 1
             /\ op'.name = "train"
             /\ BestLabel(topo, avg, op'.feats, op'.pred)
             /\ \A f \in FeatsOf(topo) : \A l \in AllLabels(topo) :
                  TrueWeight(avg', f, l) = TrueWeight(avg, f, l) +
                    (IF f \in op'.feats /\ op'.pred # op'.gold
                     THEN (IF l = op'.gold THEN 1 ELSE IF l = op'.pred THEN -1 ELSE 0)
                     ELSE 0)
       ]_vars

C9_Witness ==
  /\ op.name = "train"
  /\ calls = MaxTime
  /\ op.pred # op.gold
  /\ Cardinality(op.feats) = NFeats
  /\ \E f \in op.feats : TrueWeight(avg, f, op.gold) = 0

\* ====================================================== weight cell claim
\* C10: the freshened summed weight that GetAverage(T) divides by T is the
\* sum, over the steps s in [0, T), of the true weight in force at step s,
\* so GetAverage(T) is the time-weighted mean; GetAverage(0) is exactly 0.
C10_LazyAverage ==
  /\ Freshen(cell, clock).aweight = direct.sum
  /\ clock > 0 => GetAverage(cell, clock) = Rat(direct.sum, clock)
  /\ clock = 0 => GetAverage(cell, clock) = Zero
  /\ op.name = "average" =>
       op.value = (IF clock = 0 THEN Zero ELSE Rat(direct.sum, clock))

C10_Witness ==
  /\ op.name = "average"
  /\ clock = MaxCellTime
  /\ direct.last = clock - 1
  /\ cell.weight # 0
  /\ direct.sum # clock * cell.weight
  /\ op.value.d > 1

====
